---- MODULE Spec2Model ----
(***************************************************************************)
(* Model of the WBOR RDS encoder relay: the SmartGen connection manager    *)
(* (src/rds.py, class SmartGenConnectionManager), the application's main() *)
(* that drives it, and the message handler's use of send_command.          *)
(*                                                                         *)
(* Concurrency is asyncio's: one event loop, one thread.  A coroutine runs *)
(* without interruption from one await to the next, so every action below  *)
(* is one such run.  send_command is a plain (blocking) method: it is a    *)
(* single step of whichever coroutine calls it.                            *)
(***************************************************************************)
EXTENDS Integers, Sequences, FiniteSets

\* ------------------------------------------------------------------ bounds

\* Socket objects that may exist at once (identities are reused once a
\* socket is closed and no longer referenced, as CPython reuses addresses).
MaxSocks == 2
\* Supervisor tasks that may ever be created on the manager.
MaxTasks == 2
\* Consecutive failed connects that are counted; the count stays at MaxFails
\* from there on ("MaxFails or more").
MaxFails == 7
\* on_message coroutines that may be running at once.
MaxHandlers == 2

\* ------------------------------------------------------- program constants

\* backoff = 1  /  backoff = 1 after a successful connect
InitialBackoff == 1
\* min(backoff * 2, 60)
BackoffFactor == 2
BackoffCap == 60

None == 0
SockIds == 1..MaxSocks
TaskIds == 1..MaxTasks
Handlers == 1..MaxHandlers

Min(a, b) == IF a < b THEN a ELSE b

\* ------------------------------------------------------------------- text
\* A string is a sequence of characters; the characters that matter to the
\* response check are named here.  CR and LF are the line breaks, SP a
\* blank, HI a byte outside ASCII.

CR == "\r"
LF == "\n"
SP == " "
HI == "<E9>"

Whitespace == {CR, LF, SP}
LineBreaks == {CR, LF}

\* bytes.decode("ascii", errors="ignore"): bytes outside ASCII are dropped.
IsAscii(c) == c # HI
Decode(b) == SelectSeq(b, IsAscii)

\* str.strip(): leading and trailing whitespace removed.
RECURSIVE LStrip(_)
LStrip(s) ==
  IF s # <<>> /\ Head(s) \in Whitespace THEN LStrip(Tail(s)) ELSE s

RECURSIVE RStrip(_)
RStrip(s) ==
  IF s # <<>> /\ s[Len(s)] \in Whitespace
  THEN RStrip(SubSeq(s, 1, Len(s) - 1))
  ELSE s

Strip(s) == RStrip(LStrip(s))

\* str.splitlines(): split at "\r\n", "\r" or "\n"; the breaks are not kept
\* and a break at the very end opens no further line.
RECURSIVE SplitLines(_)
SplitLines(s) ==
  IF s = <<>> THEN <<>>
  ELSE
    LET brk == {i \in 1..Len(s) : s[i] \in LineBreaks}
    IN IF brk = {} THEN <<s>>
       ELSE
         LET i == CHOOSE j \in brk : \A k \in brk : j <= k
             skip == IF s[i] = CR /\ i < Len(s) /\ s[i + 1] = LF THEN 2 ELSE 1
         IN <<SubSeq(s, 1, i - 1)>> \o SplitLines(SubSeq(s, i + skip, Len(s)))

OK == <<"O", "K">>

\* response = self.sock.recv(1024).decode("ascii", errors="ignore").strip()
\* response_lines = response.splitlines()
ResponseLines(raw) == SplitLines(Strip(Decode(raw)))

\* What the encoder end of a live connection may send back to one command
\* (the dummy encoder sends the two bytes "OK").
Replies ==
  { OK,
    <<"N", "O">> \o <<CR, LF>>,
    OK \o <<CR, LF>> \o <<"N", "O">> \o <<CR, LF>>,
    <<"N", "O">> \o <<CR, LF>> \o OK \o <<CR, LF>>,
    <<"O", "K", "!">> \o <<LF>>,
    <<HI>> \o OK,
    <<CR, LF>> }

\* recv() on a connection the peer has closed returns b"".
Eof == <<>>

\* response_lines for every reply the network can deliver.
LinesOf == [raw \in Replies \cup {Eof} |-> ResponseLines(raw)]

\* ------------------------------------------------- display text and RT+ tag
\* src/encoder/utils/sanitization.py, src/encoder/message_handler.py lines
\* 46-72 and src/encoder/utils/rt_plus.py.  A str is a sequence of
\* characters.

\* "SmartGen TEXT= limit is 64 characters": sanitized[:64], and the
\* len(text) > 64 and text[:64] of the handler.
SanitizeLimit == 64
TextLimit == 64
\* The bounds the RT+ builder enforces: a tagged field of at most 63
\* characters, a last length field of at most 31.
FieldLimit == 63
LastLengthLimit == 31
SecondsPerMinute == 60
running_bit == 1

\* A character whose upper case is two characters, as str.upper() has them
\* (the eszett).
SZ == "sz"

\* str.upper(), character by character.
UpperChar(c) ==
  CASE c = "a" -> <<"A">>
    [] c = "b" -> <<"B">>
    [] c = "c" -> <<"C">>
    [] c = SZ -> <<"S", "S">>
    [] OTHER -> <<c>>

RECURSIVE upper(_)
upper(s) ==
  IF s = <<>> THEN <<>> ELSE UpperChar(Head(s)) \o upper(Tail(s))

\* s[:n]
Prefix(s, n) == SubSeq(s, 1, Min(n, Len(s)))

\* s[i:j] for 0 <= i
Slice(s, i, j) == SubSeq(s, i + 1, Min(j, Len(s)))

sanitize_text(raw_text) == Prefix(upper(raw_text), SanitizeLimit)

\* str.find(sub): the lowest index at which sub occurs, -1 if there is none.
find(full_text, sub) ==
  LET at == { i \in 0 .. (Len(full_text) - Len(sub)) :
                SubSeq(full_text, i + 1, i + Len(sub)) = sub }
  IN IF at = {} THEN -1 ELSE CHOOSE i \in at : \A j \in at : i <= j

\* sub in full_text
Occurs(sub, full_text) == find(full_text, sub) # -1

\* f"{sanitized_artist} - {sanitized_title}"
Separator == <<" ", "-", " ">>
JoinText(sanitized_artist, sanitized_title) ==
  sanitized_artist \o Separator \o sanitized_title

truncated_OffByOne(text) == Len(text) >= TextLimit

\* truncated = len(text) > 64
truncated(text) == Len(text) > TextLimit

\* truncated_text = text[:64] if truncated else text
truncated_text(text) ==
  IF truncated(text) THEN Prefix(text, TextLimit) ELSE text

\* rt_plus_artist, rt_plus_title: "only tag fields that fully fit".
rt_plus_field(sanitized, text) ==
  IF Occurs(sanitized, text) THEN sanitized ELSE <<>>

\* str(n) and int(s) for the decimal numbers of the payload.
Digits == <<"0", "1", "2", "3", "4", "5", "6", "7", "8", "9">>

RECURSIVE str(_)
str(n) ==
  IF n < 10 THEN <<Digits[n + 1]>>
  ELSE str(n \div 10) \o <<Digits[(n % 10) + 1]>>

DigitValue(c) == CHOOSE d \in 0 .. 9 : Digits[d + 1] = c

RECURSIVE int(_)
int(s) ==
  IF Len(s) = 1 THEN DigitValue(s[1])
  ELSE 10 * int(SubSeq(s, 1, Len(s) - 1)) + DigitValue(s[Len(s)])

\* s.split(","): a string without a comma is one field.
COMMA == ","

RECURSIVE split(_)
split(s) ==
  IF \A i \in 1 .. Len(s) : s[i] # COMMA THEN <<s>>
  ELSE LET k == CHOOSE i \in 1 .. Len(s) :
                  /\ s[i] = COMMA
                  /\ \A j \in 1 .. (i - 1) : s[j] # COMMA
       IN <<SubSeq(s, 1, k - 1)>> \o split(SubSeq(s, k + 1, Len(s)))

\* ",".join(parts)
RECURSIVE join(_)
join(parts) ==
  IF parts = <<>> THEN <<>>
  ELSE IF Len(parts) = 1 THEN parts[1]
  ELSE parts[1] \o <<COMMA>> \o join(Tail(parts))

ARTIST_TAG == <<"0", "4">>
TITLE_TAG == <<"0", "1">>
NO_ARTIST == <<"N", "O", " ", "A", "R", "T", "I", "S", "T">>
NO_TITLE == <<"N", "O", " ", "T", "I", "T", "L", "E">>
BlankGroup == <<"0", "0", COMMA, "0", "0", COMMA, "0", "0">>

\* f"{TAG},{start},{len(field)}"
Group(tag, start, length) == join(<<tag, str(start), str(length)>>)

TagPart_NoOmit(tag, full_text, field, sentinel) ==
  IF field # sentinel
  THEN <<Group(tag, IF find(full_text, field) = -1
                    THEN Len(full_text) ELSE find(full_text, field),
               Min(Len(field), FieldLimit))>>
  ELSE <<>>

TagPart_StartPlusOne(tag, full_text, field, sentinel) ==
  IF field # sentinel /\ find(full_text, field) # -1
  THEN <<Group(tag, find(full_text, field) + 1, Min(Len(field), FieldLimit))>>
  ELSE <<>>

TagPart_NoTrim(tag, full_text, field, sentinel) ==
  IF field # sentinel /\ find(full_text, field) # -1
  THEN <<Group(tag, find(full_text, field), Len(field))>>
  ELSE <<>>

\* The payload part of one field: nothing if the field is the sentinel or
\* does not occur in full_text, else its tag, its offset and the length of
\* the field trimmed to 63 characters.
TagPart(tag, full_text, field, sentinel) ==
  IF field # sentinel /\ find(full_text, field) # -1
  THEN LET trimmed == IF Len(field) > FieldLimit
                      THEN Prefix(field, FieldLimit) ELSE field
       IN <<Group(tag, find(full_text, field), Len(trimmed))>>
  ELSE <<>>

ClampLast_None(payload_parts) == payload_parts

\* "The third to last value has a unique bound of 31": the third field of
\* the last part is set to 31 if it is larger.
ClampLast(payload_parts) ==
  LET n == Len(payload_parts)
      fields == split(payload_parts[n])
  IN IF int(fields[3]) > LastLengthLimit
     THEN [payload_parts EXCEPT
             ![n] = join(SubSeq(fields, 1, 2) \o <<str(LastLengthLimit)>>)]
     ELSE payload_parts

\* timeout = duration // 60
Timeout(duration) == duration \div SecondsPerMinute

build_rt_plus_tag_command_NoPad(full_text, artist, title, duration) ==
  LET found == TagPart(ARTIST_TAG, full_text,
                       IF artist = <<>> THEN NO_ARTIST ELSE artist, NO_ARTIST)
                 \o TagPart(TITLE_TAG, full_text,
                            IF title = <<>> THEN NO_TITLE ELSE title, NO_TITLE)
  IN IF found = <<>> THEN <<>>
     ELSE join(ClampLast(found)
                 \o <<str(running_bit), str(Timeout(duration))>>)

\* Mutant: with nothing to tag the builder returns two blank groups.
build_rt_plus_tag_command_NoEmpty(full_text, artist, title, duration) ==
  LET found == TagPart(ARTIST_TAG, full_text,
                       IF artist = <<>> THEN NO_ARTIST ELSE artist, NO_ARTIST)
                 \o TagPart(TITLE_TAG, full_text,
                            IF title = <<>> THEN NO_TITLE ELSE title, NO_TITLE)
      padded == IF found = <<>> THEN <<BlankGroup, BlankGroup>>
                ELSE IF Len(found) = 1 THEN Append(found, BlankGroup)
                ELSE found
  IN join(ClampLast(padded) \o <<str(running_bit), str(Timeout(duration))>>)

\* build_rt_plus_tag_command(full_text, artist, title, duration): the
\* payload string, "" if there is nothing to tag.
build_rt_plus_tag_command(full_text, artist, title, duration) ==
  LET artist1 == IF artist = <<>> THEN NO_ARTIST ELSE artist
      title1 == IF title = <<>> THEN NO_TITLE ELSE title
      found == TagPart(ARTIST_TAG, full_text, artist1, NO_ARTIST)
                 \o TagPart(TITLE_TAG, full_text, title1, NO_TITLE)
  IN IF found = <<>> THEN <<>>
     ELSE IF Len(found) > 2 THEN <<>>
     ELSE LET padded == IF Len(found) = 1
                        THEN Append(found, BlankGroup) ELSE found
          IN join(ClampLast(padded)
                    \o <<str(running_bit), str(Timeout(duration))>>)

\* ------------------------------------------------------------------ state

VARIABLES
  sock,             \* self.sock: None, or the socket object installed
  _stop,            \* self._stop
  _reconnect_task,  \* self._reconnect_task: None, or the task start() created
  task,             \* the _manage_connection tasks: where each one stands
  open,             \* the sockets that are connected and not closed
  peerUp,           \* the encoder's end of the installed connection is up
  answeredOk,       \* the installed connection has answered a command "OK"
  mainpc,           \* where main() stands
  calls,            \* the send_command calls of the latest on_message
  handled,          \* how the latest on_message ended
  enc,              \* one event on its way from artist/title to the payload
  handler,          \* the on_message coroutines: where each one stands
  wire              \* the command written to the socket and not yet answered

\* What the connection manager and main() never touch.
pipeline == <<enc, handler, wire>>

vars ==
  <<sock, _stop, _reconnect_task, task, open, peerUp, answeredOk, mainpc, calls,
    handled, enc, handler, wire>>

Sleeping == {"sleep_backoff", "sleep_idle"}
Finished == {"done", "cancelled"}

\* A task that start() has not created yet.
NoTask ==
  [pc |-> "none", backoff |-> InitialBackoff, must_cancel |-> FALSE,
   fired |-> FALSE, fails |-> 0, slept |-> 0]

\* Before any message has been delivered.
NoMessage ==
  [body |-> "none", keys |-> {}, artist |-> <<>>, song |-> <<>>, duration |-> 0]

NoHandled ==
  [msg |-> NoMessage, raised |-> "none", logged |-> "none",
   escaped |-> "none", disposition |-> "none"]

\* No event is on its way through the text and tag computation.
NoEnc ==
  [stage |-> "off", via |-> "none", artist |-> <<>>, title |-> <<>>,
   duration |-> 0, sanitized_artist |-> <<>>, sanitized_title |-> <<>>,
   text |-> <<>>, truncated |-> FALSE, rt_plus_artist |-> <<>>,
   rt_plus_title |-> <<>>, payload |-> <<>>]

\* An on_message coroutine that is not running.
IdleHandler == [pc |-> "idle", msg |-> NoMessage]

\* Nothing written to the socket is waiting for its response.
NoCmd == [by |-> None, cmd |-> "none"]
\* No event has had its TEXT written and its RT+TAG still to come.
NoPending == [by |-> None, sock |-> None]
QuietWire ==
  [inflight |-> NoCmd, last |-> NoCmd, piped |-> FALSE, misread |-> FALSE,
   pending |-> NoPending, split |-> FALSE]

\* SmartGenConnectionManager.__init__, and main() before its first line.
InitManager ==
  /\ sock = None
  /\ _stop = FALSE
  /\ _reconnect_task = None
  /\ task = [t \in TaskIds |-> NoTask]
  /\ open = {}
  /\ peerUp = FALSE
  /\ answeredOk = FALSE
  /\ mainpc = "init"
  /\ calls = <<>>
  /\ handled = NoHandled
  /\ handler = [h \in Handlers |-> IdleHandler]
  /\ wire = QuietWire

Init ==
  /\ InitManager
  /\ enc = NoEnc

\* ----------------------------------------------------------- send_command

\* What the network does to one command: the encoder replies `raw`, or
\* sendall() raises, or recv() raises (timeout, reset).
Env(kind, raw) == [kind |-> kind, raw |-> raw]

EnvChoices(up) ==
  {Env("send_error", Eof), Env("recv_error", Eof)}
    \cup (IF up THEN {Env("reply", r) : r \in Replies} ELSE {Env("reply", Eof)})

\* How a call ends for its caller and for the manager: the handle and the
\* open sockets it leaves, and whether it wrote the command and read a reply.
Result(sk, op, outcome, wrote, read) ==
  [sock |-> sk, open |-> op, outcome |-> outcome, wrote |-> wrote, read |-> read]

\* Mutant: the socket is closed but the handle is not cleared.
TearDown_KeepsHandle(sk, op, outcome, wrote, read) ==
  Result(sk, op \ {sk}, outcome, wrote, read)

\* Mutant: the handle is cleared but the socket is not closed.
TearDown_NoClose(sk, op, outcome, wrote, read) ==
  Result(None, op, outcome, wrote, read)

\* The two except clauses: self.sock.close(), self.sock = None, raise.
TearDown(sk, op, outcome, wrote, read) ==
  Result(None, op \ {sk}, outcome, wrote, read)

\* Mutant: the first line is compared with "OK" instead of the last.
Rejected_FirstLine(response_lines) ==
  /\ response_lines # <<>>
  /\ response_lines[1] # OK

\* elif response_lines[-1] != "OK": raise RuntimeError
Rejected(response_lines) ==
  /\ response_lines # <<>>
  /\ response_lines[Len(response_lines)] # OK

\* Mutant: the `if not self.sock` guard is missing.
send_command_NoGuard(sk, op, env) ==
  IF sk \notin op \/ env.kind = "send_error"
  THEN Result(None, op \ {sk}, "TransportError", FALSE, FALSE)
  ELSE IF env.kind = "recv_error"
  THEN Result(None, op \ {sk}, "TransportError", TRUE, FALSE)
  ELSE IF LinesOf[env.raw] # <<>> /\ LinesOf[env.raw][Len(LinesOf[env.raw])] # OK
  THEN Result(None, op \ {sk}, "DeviceRejected", TRUE, TRUE)
  ELSE Result(sk, op, "ok", TRUE, TRUE)

\* Mutant: a device rejection is raised without the socket being closed.
send_command_RejectKeepsSocket(sk, op, env) ==
  IF sk = None
  THEN Result(sk, op, "NotConnected", FALSE, FALSE)
  ELSE IF sk \notin op \/ env.kind = "send_error"
  THEN TearDown(sk, op, "TransportError", FALSE, FALSE)
  ELSE IF env.kind = "recv_error"
  THEN TearDown(sk, op, "TransportError", TRUE, FALSE)
  ELSE IF Rejected(LinesOf[env.raw])
  THEN Result(sk, op, "DeviceRejected", TRUE, TRUE)
  ELSE Result(sk, op, "ok", TRUE, TRUE)

\* Mutant: the socket is closed after every command, answered "OK" or not.
send_command_ClosesOnOk(sk, op, env) ==
  IF sk = None
  THEN Result(sk, op, "NotConnected", FALSE, FALSE)
  ELSE IF sk \notin op \/ env.kind = "send_error"
  THEN TearDown(sk, op, "TransportError", FALSE, FALSE)
  ELSE IF env.kind = "recv_error"
  THEN TearDown(sk, op, "TransportError", TRUE, FALSE)
  ELSE IF Rejected(LinesOf[env.raw])
  THEN TearDown(sk, op, "DeviceRejected", TRUE, TRUE)
  ELSE TearDown(sk, op, "ok", TRUE, TRUE)

\* send_command(command, value) on a manager whose socket handle is `sk`,
\* with `op` the open sockets and `env` what the network does to the command.
send_command(sk, op, env) ==
  IF sk = None
  THEN \* raise ConnectionError("SmartGen socket is not connected.")
       Result(sk, op, "NotConnected", FALSE, FALSE)
  ELSE IF sk \notin op \/ env.kind = "send_error"
  THEN \* sendall() raises socket.error (EBADF when the socket is closed)
       TearDown(sk, op, "TransportError", FALSE, FALSE)
  ELSE IF env.kind = "recv_error"
  THEN \* recv() raises socket.error (timeout, reset)
       TearDown(sk, op, "TransportError", TRUE, FALSE)
  ELSE IF Rejected(LinesOf[env.raw])
  THEN \* RuntimeError is caught by `except Exception`, then raised again
       TearDown(sk, op, "DeviceRejected", TRUE, TRUE)
  ELSE \* last line "OK", or no line at all: a warning is logged at most
       Result(sk, op, "ok", TRUE, TRUE)

\* The record kept of one call: what it was given, what it found and what
\* it left behind.
CallRecord(cmd, m, env, r) ==
  [cmd |-> cmd, env |-> env, phase |-> mainpc,
   sockBefore |-> m.sock, openBefore |-> m.open,
   peerBefore |-> m.peerUp, answeredBefore |-> m.answeredOk,
   outcome |-> r.outcome, wrote |-> r.wrote, read |-> r.read,
   sockAfter |-> r.sock, openAfter |-> r.open]

\* The manager and its connection after a call that ended as `r`.
After(m, env, r) ==
  [sock |-> r.sock, open |-> r.open,
   peerUp |-> m.peerUp /\ r.sock # None,
   answeredOk |-> /\ r.sock # None
                  /\ \/ m.answeredOk
                     \/ r.outcome = "ok" /\ LinesOf[env.raw] # <<>>]

\* ------------------------------------------------------------- on_message

\* The messages the queue may deliver: a body that is not JSON, objects
\* without "artist", without "song" or with an empty "song", and a track.  A
\* key that is absent reads as None.
Track ==
  [body |-> "json", keys |-> {"artist", "song", "duration"},
   artist |-> <<"a", "b">>, song |-> <<"c">>, duration |-> 258]

Messages ==
  { [NoMessage EXCEPT !.body = "garbage"],
    [Track EXCEPT !.keys = {"song", "duration"}, !.artist = <<>>],
    [Track EXCEPT !.keys = {"artist", "duration"}, !.song = <<>>],
    [Track EXCEPT !.song = <<>>],
    [Track EXCEPT !.artist = NO_ARTIST, !.song = NO_TITLE],
    Track }

\* not track_info.get(key)
Falsy(msg, key) == key \notin msg.keys \/ msg[key] = <<>>

Validate_NoFieldCheck(msg) ==
  IF msg.body # "json" THEN "JSONDecodeError" ELSE "none"

\* Lines 30-42: what json.loads or the check of artist and title raises,
\* "none" if the message passes.
Validate(msg) ==
  IF msg.body # "json" THEN "JSONDecodeError"
  ELSE IF Falsy(msg, "artist") \/ Falsy(msg, "song") THEN "ValueError"
  ELSE "none"

\* Lines 46-83 for a message that passes: the TEXT value and the payload.
HandlerText(msg) ==
  truncated_text(JoinText(sanitize_text(msg.artist), sanitize_text(msg.song)))

HandlerPayload(msg) ==
  build_rt_plus_tag_command(
    HandlerText(msg),
    rt_plus_field(sanitize_text(msg.artist), HandlerText(msg)),
    rt_plus_field(sanitize_text(msg.song), HandlerText(msg)),
    msg.duration)

\* The payload of every message the queue may deliver.
PayloadOf == [msg \in Messages |-> HandlerPayload(msg)]

\* issubclass(exc, cls) for the exceptions of the handler; socket.error is
\* OSError.
IsA(exc, cls) ==
  \/ exc = cls
  \/ exc = "JSONDecodeError" /\ cls = "ValueError"
  \/ exc = "ConnectionError" /\ cls = "OSError"

\* What send_command raises.
SendError(outcome) ==
  CASE outcome = "NotConnected" -> "ConnectionError"
    [] outcome = "TransportError" -> "OSError"
    [] outcome = "DeviceRejected" -> "RuntimeError"
    [] OTHER -> "none"

\* except (ConnectionError, RuntimeError, socket.error) as e:
\*     raise aio_pika.exceptions.AMQPError(...) from e
InnerExcept(exc) ==
  IF \E cls \in {"ConnectionError", "RuntimeError", "OSError"} : IsA(exc, cls)
  THEN "AMQPError"
  ELSE exc

OuterExcept_NoSendClause(exc) ==
  IF exc = "none" THEN [logged |-> "none", escaped |-> "none"]
  ELSE IF IsA(exc, "ValueError") THEN [logged |-> "critical", escaped |-> "none"]
  ELSE [logged |-> "none", escaped |-> exc]

\* The except clauses of lines 97-102: what is logged, and the exception that
\* leaves the try statement.
OuterExcept(exc) ==
  IF exc = "none" THEN [logged |-> "none", escaped |-> "none"]
  ELSE IF IsA(exc, "JSONDecodeError")
    THEN [logged |-> "critical", escaped |-> "none"]
  ELSE IF IsA(exc, "ValueError")
    THEN [logged |-> "critical", escaped |-> "none"]
  ELSE IF \E cls \in {"AMQPError", "OSError", "RuntimeError"} : IsA(exc, cls)
    THEN [logged |-> "exception", escaped |-> "none"]
  ELSE [logged |-> "none", escaped |-> exc]

\* async with message.process(): the message is acknowledged if the block is
\* left normally, rejected without requeue if an exception leaves it.
process(escaped) == IF escaped = "none" THEN "ack" ELSE "reject"

\* How on_message ends for `msg` when `exc` is raised inside the try.
HandledAs(msg, exc) ==
  [msg |-> msg, raised |-> exc, logged |-> OuterExcept(exc).logged,
   escaped |-> OuterExcept(exc).escaped,
   disposition |-> process(OuterExcept(exc).escaped)]

\* Mutant: a TEXT command that raised is tried once more.
HandlerRuns_RetryText(m0, hasPayload) ==
  UNION {
    LET r1 == send_command(m0.sock, m0.open, e1)
        c1 == CallRecord("TEXT", m0, e1, r1)
        m1 == After(m0, e1, r1)
        r2 == send_command(m1.sock, m1.open, e1)
    IN IF r1.outcome # "ok"
       THEN { [calls |-> <<c1, CallRecord("TEXT", m1, e1, r2)>>,
               m |-> After(m1, e1, r2)] }
       ELSE { [calls |-> <<c1>>, m |-> m1] }
    : e1 \in EnvChoices(m0.peerUp) }

\* Lines 78-96, from the manager as `m0` finds it: the TEXT command, then the
\* RT+TAG command unless the first one raised or there is no payload.  There is
\* no await between the two commands, but the encoder may drop the connection
\* between them.  Each run is the calls made and the manager they leave.
HandlerRuns(m0, hasPayload) ==
  UNION {
    LET r1 == send_command(m0.sock, m0.open, e1)
        c1 == CallRecord("TEXT", m0, e1, r1)
        m1 == After(m0, e1, r1)
    IN IF r1.outcome # "ok" \/ ~hasPayload
       THEN { [calls |-> <<c1>>, m |-> m1] }
       ELSE UNION {
         { LET m1b == [m1 EXCEPT !.peerUp = up2]
               r2 == send_command(m1b.sock, m1b.open, e2)
               c2 == CallRecord("RT+TAG", m1b, e2, r2)
           IN [calls |-> <<c1, c2>>, m |-> After(m1b, e2, r2)]
           : e2 \in EnvChoices(up2) }
         : up2 \in {m1.peerUp, FALSE} }
    : e1 \in EnvChoices(m0.peerUp) }

\* The exception that leaves the inner try after the calls `cs`.
Raised(cs) == InnerExcept(SendError(cs[Len(cs)].outcome))

\* on_message, once the awaited sanitize_text calls have returned.  The
\* handler awaits sanitize_text, and src/encoder/utils/sanitization.py has it
\* as a plain function: the awaits are taken as points where the coroutine may
\* be suspended, and the text as what that function computes.  Up to the
\* commands the coroutine touches nothing but its own variables, so here the
\* whole handler is one step.
on_message(msg) ==
  /\ mainpc \in {"consuming", "stopping", "stopped"}
  /\ IF Validate(msg) # "none"
     THEN /\ calls' = <<>>
          /\ handled' = HandledAs(msg, Validate(msg))
          /\ UNCHANGED <<sock, open, peerUp, answeredOk>>
     ELSE \E run \in HandlerRuns([sock |-> sock, open |-> open,
                                  peerUp |-> peerUp, answeredOk |-> answeredOk],
                                 PayloadOf[msg] # <<>>) :
            /\ calls' = run.calls
            /\ handled' = HandledAs(msg, Raised(run.calls))
            /\ sock' = run.m.sock
            /\ open' = run.m.open
            /\ peerUp' = run.m.peerUp
            /\ answeredOk' = run.m.answeredOk
  /\ UNCHANGED <<_stop, _reconnect_task, task, mainpc, pipeline>>

\* ------------------------------------------------------ _manage_connection

\* socket.socket(...): an object that is neither open nor still referenced.
FreeSocks == SockIds \ (open \cup {sock})
NewSock == CHOOSE s \in FreeSocks : \A o \in FreeSocks : s <= o

\* Mutant: the backoff is doubled without the 60 s ceiling.
NextBackoff_NoCap(backoff) == backoff * BackoffFactor

\* backoff = min(backoff * 2, 60)
NextBackoff(backoff) == Min(backoff * BackoffFactor, BackoffCap)

\* The task goes to sleep: `await asyncio.sleep(...)`.
Asleep(t, pc, backoff, fails, slept) ==
  [task EXCEPT ![t] = [pc |-> pc, backoff |-> backoff,
                       must_cancel |-> task[t].must_cancel,
                       fired |-> FALSE, fails |-> fails, slept |-> slept]]

\* sock.connect() returned: the socket is installed, backoff = 1, and the
\* loop comes round to `await asyncio.sleep(1)`.
Connected(t) ==
  /\ FreeSocks # {}
  /\ sock' = NewSock
  /\ open' = open \cup {NewSock}
  /\ peerUp' = TRUE
  /\ answeredOk' = FALSE
  /\ task' = Asleep(t, "sleep_idle", InitialBackoff, 0, task[t].slept)

\* Mutant: the exception of a failed connect ends the task.
ConnectFailed_TaskEnds(t, backoff) ==
  /\ task' = [task EXCEPT ![t].pc = "done", ![t].backoff = backoff]
  /\ UNCHANGED <<sock, open, peerUp, answeredOk>>

\* sock.connect() raised: `await asyncio.sleep(backoff)`.
ConnectFailed(t, backoff) ==
  /\ task' = Asleep(t, "sleep_backoff", backoff,
                    Min(task[t].fails + 1, MaxFails), backoff)
  /\ UNCHANGED <<sock, open, peerUp, answeredOk>>

\* One turn of `while not self._stop:` with the local `backoff` as given,
\* up to the next await or to the end of the coroutine.
LoopTurn(t, backoff) ==
  IF _stop
  THEN /\ task' = [task EXCEPT ![t].pc = "done", ![t].backoff = backoff]
       /\ UNCHANGED <<sock, open, peerUp, answeredOk>>
  ELSE IF sock = None
  THEN \/ Connected(t)
       \/ ConnectFailed(t, backoff)
  ELSE /\ task' = Asleep(t, "sleep_idle", backoff, task[t].fails, task[t].slept)
       /\ UNCHANGED <<sock, open, peerUp, answeredOk>>

\* The event loop runs the task for the first time: backoff = 1, first turn.
Run(t) ==
  /\ task[t].pc = "created"
  /\ ~task[t].must_cancel
  /\ LoopTurn(t, InitialBackoff)
  /\ UNCHANGED <<_stop, _reconnect_task, mainpc, calls, handled, pipeline>>

\* The timer of the sleep the task is awaiting runs out.
TimerFire(t) ==
  /\ task[t].pc \in Sleeping
  /\ ~task[t].fired
  /\ task' = [task EXCEPT ![t].fired = TRUE]
  /\ UNCHANGED <<sock, _stop, _reconnect_task, open, peerUp, answeredOk, mainpc, calls, handled, pipeline>>

\* asyncio.sleep(backoff) returns: the backoff is doubled, next turn.
WakeBackoff(t) ==
  /\ task[t].pc = "sleep_backoff"
  /\ task[t].fired
  /\ ~task[t].must_cancel
  /\ LoopTurn(t, NextBackoff(task[t].backoff))
  /\ UNCHANGED <<_stop, _reconnect_task, mainpc, calls, handled, pipeline>>

\* Mutant: the supervisor checks the connection when it wakes up and closes
\* a socket whose peer is gone.
WakeIdle_HealthCheck(t) ==
  /\ task[t].pc = "sleep_idle"
  /\ task[t].fired
  /\ ~task[t].must_cancel
  /\ IF sock # None /\ ~peerUp /\ ~_stop
     THEN /\ sock' = None
          /\ open' = open \ {sock}
          /\ answeredOk' = FALSE
          /\ task' = Asleep(t, "sleep_idle", task[t].backoff, task[t].fails,
                            task[t].slept)
          /\ UNCHANGED peerUp
     ELSE LoopTurn(t, task[t].backoff)
  /\ UNCHANGED <<_stop, _reconnect_task, mainpc, calls, handled, pipeline>>

\* asyncio.sleep(1) returns: next turn.
WakeIdle(t) ==
  /\ task[t].pc = "sleep_idle"
  /\ task[t].fired
  /\ ~task[t].must_cancel
  /\ LoopTurn(t, task[t].backoff)
  /\ UNCHANGED <<_stop, _reconnect_task, mainpc, calls, handled, pipeline>>

\* Task.cancel() was called: the task's next step raises CancelledError at
\* its await (or before its first line), whether or not the timer ran out.
Cancelled(t) ==
  /\ task[t].pc \in Sleeping \cup {"created"}
  /\ task[t].must_cancel
  /\ task' = [task EXCEPT ![t].pc = "cancelled"]
  /\ UNCHANGED <<sock, _stop, _reconnect_task, open, peerUp, answeredOk, mainpc, calls, handled, pipeline>>

\* ----------------------------------------------------------- start, stop

\* start(): self._reconnect_task = asyncio.create_task(...)
start ==
  /\ \E t \in TaskIds :
       /\ task[t].pc = "none"
       /\ \A u \in TaskIds : u < t => task[u].pc # "none"
       /\ task' = [task EXCEPT ![t].pc = "created"]
       /\ _reconnect_task' = t
  /\ UNCHANGED <<sock, _stop, open, peerUp, answeredOk, calls, handled, pipeline>>

\* Mutant: stop() leaves the socket as it is.
CloseIfOpen_Skipped == UNCHANGED <<sock, open, peerUp, answeredOk>>

\* if self.sock: self.sock.close(); self.sock = None
CloseIfOpen ==
  /\ sock' = None
  /\ open' = open \ {sock}
  /\ peerUp' = FALSE
  /\ answeredOk' = FALSE

\* Mutant: stop() sets the flag and waits for the task without cancelling it.
stop_call_NoCancel ==
  /\ _stop' = TRUE
  /\ mainpc' = "stopping"
  /\ UNCHANGED <<sock, open, peerUp, answeredOk, task, _reconnect_task, calls, handled, pipeline>>

\* stop() up to `await self._reconnect_task`; to its end when there is no
\* task to wait for.
stop_call ==
  /\ _stop' = TRUE
  /\ IF _reconnect_task # None /\ task[_reconnect_task].pc \notin Finished
     THEN /\ task' = [task EXCEPT ![_reconnect_task].must_cancel = TRUE]
          /\ mainpc' = "stopping"
          /\ UNCHANGED <<sock, open, peerUp, answeredOk>>
     ELSE /\ CloseIfOpen
          /\ mainpc' = "stopped"
          /\ UNCHANGED task
  /\ UNCHANGED <<_reconnect_task, calls, handled, pipeline>>

\* stop() from the await on: the task has ended, the socket is closed.
stop_return ==
  /\ mainpc = "stopping"
  /\ task[_reconnect_task].pc \in Finished
  /\ CloseIfOpen
  /\ mainpc' = "stopped"
  /\ UNCHANGED <<_stop, _reconnect_task, task, calls, handled, pipeline>>

\* ------------------------------------------------------------------ main

\* await smartgen_mgr.start()
MainStart ==
  /\ mainpc = "init"
  /\ start
  /\ mainpc' = "started"

\* connection = await consume_rabbitmq(smartgen_mgr)
MainConsume ==
  /\ mainpc = "started"
  /\ mainpc' = "consuming"
  /\ UNCHANGED <<sock, _stop, _reconnect_task, task, open, peerUp, answeredOk, calls, handled, pipeline>>

\* The shutdown signal: await smartgen_mgr.stop()
MainStop ==
  /\ mainpc = "consuming"
  /\ stop_call

\* await connection.close(): no message is delivered any more.
MainClose ==
  /\ mainpc = "stopped"
  /\ mainpc' = "closed"
  /\ UNCHANGED <<sock, _stop, _reconnect_task, task, open, peerUp, answeredOk, calls, handled, pipeline>>

\* ----------------------------------------------------------- environment

\* The encoder drops the connection.
PeerDrop ==
  /\ sock # None
  /\ peerUp
  /\ peerUp' = FALSE
  /\ UNCHANGED <<sock, _stop, _reconnect_task, task, open, answeredOk, mainpc, calls, handled, pipeline>>

\* A message is delivered to the consumer.
Deliver == \E msg \in Messages : on_message(msg)

Next ==
  \/ MainStart
  \/ MainConsume
  \/ MainStop
  \/ stop_return
  \/ MainClose
  \/ \E t \in TaskIds : Run(t)
  \/ \E t \in TaskIds : TimerFire(t)
  \/ \E t \in TaskIds : WakeBackoff(t)
  \/ \E t \in TaskIds : WakeIdle(t)
  \/ \E t \in TaskIds : Cancelled(t)
  \/ PeerDrop
  \/ Deliver

Spec == Init /\ [][Next]_vars

\* A second specification for the liveness of the supervisor: the event loop
\* runs every task that is ready and every timer runs out, and the encoder
\* accepts a connection in the end if the supervisor keeps trying.
ConnectSucceeds ==
  /\ sock = None
  /\ \E t \in TaskIds : Run(t) \/ WakeBackoff(t) \/ WakeIdle(t)
  /\ sock' # None

LiveSpec ==
  /\ Spec
  /\ \A t \in TaskIds :
       /\ WF_vars(Run(t))
       /\ WF_vars(TimerFire(t))
       /\ WF_vars(WakeBackoff(t))
       /\ WF_vars(WakeIdle(t))
  /\ SF_vars(ConnectSucceeds)

\* A third specification for stop(): the event loop runs every task that is
\* ready, but no timer is required ever to run out.
StopSpec ==
  /\ Spec
  /\ \A t \in TaskIds : WF_vars(Cancelled(t))
  /\ WF_vars(stop_return)

\* ------------------------------------------------ start() called repeatedly
\* A fourth specification, for the manager as an object that any caller may
\* use: main() calls start() once, another caller may call it again before
\* stop().  It follows the supervisor tasks and stop(); no message is
\* delivered.

\* await smartgen_mgr.start(), once more.
StartAgain ==
  /\ mainpc \in {"started", "consuming"}
  /\ start
  /\ UNCHANGED mainpc

ApiNext ==
  \/ MainStart
  \/ StartAgain
  \/ MainConsume
  \/ MainStop
  \/ stop_return
  \/ MainClose
  \/ \E t \in TaskIds : Run(t)
  \/ \E t \in TaskIds : TimerFire(t)
  \/ \E t \in TaskIds : WakeBackoff(t)
  \/ \E t \in TaskIds : WakeIdle(t)
  \/ \E t \in TaskIds : Cancelled(t)
  \/ PeerDrop

ApiSpec == Init /\ [][ApiNext]_vars

\* ------------------------------------------------- handlers side by side
\* A fifth specification, for on_message as the coroutine it is: every
\* message delivered starts a handler of its own, a handler is suspended at
\* each await of sanitize_text, and the event loop resumes the handlers in any
\* order, between the steps of the supervisor and of main().  It follows what
\* is written to and read from the socket; the calls are not recorded.

\* sendall(): `cmd` of handler `h` is on the wire; it is piped if the response
\* to an earlier command is still outstanding.
WireWrite(w, h, cmd) ==
  [w EXCEPT !.inflight = [by |-> h, cmd |-> cmd],
            !.piped = w.piped \/ w.inflight # NoCmd]

\* recv(): the response read is taken as the response to `cmd` of handler
\* `h`; that is wrong unless this is the command on the wire.
WireRead(w, h, cmd) ==
  [w EXCEPT !.inflight = NoCmd,
            !.last = [by |-> h, cmd |-> cmd],
            !.misread = w.misread \/ w.inflight # [by |-> h, cmd |-> cmd]]

\* The socket is closed: what was on the wire is gone with it.
WireDrop(w) == [w EXCEPT !.inflight = NoCmd]

\* The write of call `c` among the pairs of TEXT and RT+TAG: a TEXT opens
\* the pair of its event on the socket it is written to, the RT+TAG closes
\* it.  A pair is split if a TEXT is written while another pair is open, or
\* an RT+TAG when the pair of its event is not open on this socket.
WirePair(w, h, c) ==
  LET mine == [by |-> h, sock |-> c.sockBefore]
  IN IF c.cmd = "TEXT"
     THEN [w EXCEPT !.split = w.split \/ w.pending # NoPending,
                    !.pending = mine]
     ELSE [w EXCEPT !.split = w.split \/ w.pending # mine,
                    !.pending = NoPending]

\* One send_command call of handler `h`, as the call record `c` has it.
WireCall(w, h, c) ==
  IF ~c.wrote THEN w
  ELSE IF c.read
  THEN WirePair(WireRead(WireWrite(w, h, c.cmd), h, c.cmd), h, c)
  ELSE WirePair(WireDrop(WireWrite(w, h, c.cmd)), h, c)

\* Handler `h` returns: its event has no command to come.
WireDone(w, h) ==
  IF w.pending.by = h THEN [w EXCEPT !.pending = NoPending] ELSE w

\* The calls `cs` of handler `h`, one after the other, to its return.
WireAfter(w, h, cs) ==
  IF Len(cs) = 1 THEN WireDone(WireCall(w, h, cs[1]), h)
  ELSE WireDone(WireCall(WireCall(w, h, cs[1]), h, cs[2]), h)

\* on_message up to its first await.  A message that fails the checks is
\* logged and done with in this step.
Receive(h, msg) ==
  /\ mainpc \in {"consuming", "stopping", "stopped"}
  /\ handler[h].pc = "idle"
  /\ IF Validate(msg) # "none"
     THEN /\ handled' = HandledAs(msg, Validate(msg))
          /\ UNCHANGED handler
     ELSE /\ handler' = [handler EXCEPT ![h] = [pc |-> "sanitize_artist",
                                                msg |-> msg]]
          /\ UNCHANGED handled
  /\ UNCHANGED <<sock, _stop, _reconnect_task, task, open, peerUp, answeredOk,
                 mainpc, calls, enc, wire>>

\* sanitized_artist = await sanitize_text(artist) returns; the handler is
\* suspended again at the await of the next line.
SanitizedArtist(h) ==
  /\ mainpc \in {"consuming", "stopping", "stopped"}
  /\ handler[h].pc = "sanitize_artist"
  /\ handler' = [handler EXCEPT ![h].pc = "sanitize_title"]
  /\ UNCHANGED <<sock, _stop, _reconnect_task, task, open, peerUp, answeredOk,
                 mainpc, calls, handled, enc, wire>>

\* Mutant: send_command awaits the response, so the handler is suspended
\* between the write and the read.
Respond_AwaitsResponse(h) ==
  /\ \/ /\ handler[h].pc = "sanitize_title"
        /\ sock # None
        /\ wire' = WireWrite(wire, h, "TEXT")
        /\ handler' = [handler EXCEPT ![h].pc = "await_response"]
     \/ /\ handler[h].pc = "await_response"
        /\ wire' = WireRead(wire, h, "TEXT")
        /\ handler' = [handler EXCEPT ![h] = IdleHandler]
  /\ UNCHANGED <<sock, _stop, _reconnect_task, task, open, peerUp, answeredOk,
                 mainpc, calls, handled, enc>>

\* Mutant: the handler is suspended between its TEXT and its RT+TAG.
Respond_YieldsBetween(h) ==
  /\ mainpc \in {"consuming", "stopping", "stopped"}
  /\ LET m0 == [sock |-> sock, open |-> open, peerUp |-> peerUp,
                answeredOk |-> answeredOk]
     IN \/ /\ handler[h].pc = "sanitize_title"
           /\ \E run \in HandlerRuns(m0, FALSE) :
                LET more == /\ Raised(run.calls) = "none"
                            /\ PayloadOf[handler[h].msg] # <<>>
                IN /\ wire' = IF more THEN WireCall(wire, h, run.calls[1])
                              ELSE WireAfter(wire, h, run.calls)
                   /\ handled' = IF more THEN handled
                                 ELSE HandledAs(handler[h].msg,
                                                Raised(run.calls))
                   /\ handler' = [handler EXCEPT ![h] =
                                    IF more
                                    THEN [pc |-> "between",
                                          msg |-> handler[h].msg]
                                    ELSE IdleHandler]
                   /\ sock' = run.m.sock
                   /\ open' = run.m.open
                   /\ peerUp' = run.m.peerUp
                   /\ answeredOk' = run.m.answeredOk
        \/ /\ handler[h].pc = "between"
           /\ \E e \in EnvChoices(peerUp) :
                LET r == send_command(sock, open, e)
                    c == CallRecord("RT+TAG", m0, e, r)
                    m1 == After(m0, e, r)
                IN /\ wire' = WireDone(WireCall(wire, h, c), h)
                   /\ handled' = HandledAs(handler[h].msg, Raised(<<c>>))
                   /\ handler' = [handler EXCEPT ![h] = IdleHandler]
                   /\ sock' = m1.sock
                   /\ open' = m1.open
                   /\ peerUp' = m1.peerUp
                   /\ answeredOk' = m1.answeredOk
  /\ UNCHANGED <<_stop, _reconnect_task, task, mainpc, calls, enc>>

\* sanitized_title = await sanitize_text(title) returns, and the handler
\* runs to its end: lines 48-102, the commands in one step.
Respond(h) ==
  /\ mainpc \in {"consuming", "stopping", "stopped"}
  /\ handler[h].pc = "sanitize_title"
  /\ \E run \in HandlerRuns([sock |-> sock, open |-> open, peerUp |-> peerUp,
                             answeredOk |-> answeredOk],
                            PayloadOf[handler[h].msg] # <<>>) :
       /\ wire' = WireAfter(wire, h, run.calls)
       /\ handled' = HandledAs(handler[h].msg, Raised(run.calls))
       /\ sock' = run.m.sock
       /\ open' = run.m.open
       /\ peerUp' = run.m.peerUp
       /\ answeredOk' = run.m.answeredOk
  /\ handler' = [handler EXCEPT ![h] = IdleHandler]
  /\ UNCHANGED <<_stop, _reconnect_task, task, mainpc, calls, enc>>

PipeNext ==
  \/ MainStart
  \/ MainConsume
  \/ MainStop
  \/ stop_return
  \/ MainClose
  \/ \E t \in TaskIds : Run(t)
  \/ \E t \in TaskIds : TimerFire(t)
  \/ \E t \in TaskIds : WakeBackoff(t)
  \/ \E t \in TaskIds : WakeIdle(t)
  \/ \E t \in TaskIds : Cancelled(t)
  \/ PeerDrop
  \/ \E h \in Handlers, msg \in Messages : Receive(h, msg)
  \/ \E h \in Handlers : SanitizedArtist(h)
  \/ \E h \in Handlers : Respond(h)

PipeSpec == Init /\ [][PipeNext]_vars

\* ------------------------------------------- text and tag of single events
\* A specification of the computation alone: one event, whose artist, title
\* and duration are drawn from the sets below, is taken from the message
\* fields to the TEXT value and the RT+TAG payload.

Rep(c, n) == [i \in 1 .. n |-> c]

\* Artists and titles: short ones, lower case, the eszett, fields around and
\* over the limits of 31, 63 and 64 characters, pairs whose join is 64 and 65
\* characters long, a title that also occurs in the artist, "", and the
\* builder's own sentinels.
ArtistLengths == {9, 30, 40, 60, 61, 62, 64, 70}
Artists ==
  { Rep("A", n) : n \in ArtistLengths }
    \cup { <<"a", "b">>, <<"a", SZ>>, <<>>, NO_ARTIST }
TitleLengths == {1, 4, 12, 31, 32, 40, 64, 70}
Titles ==
  { Rep("B", n) : n \in TitleLengths }
    \cup { <<"c">>, <<"A">>, <<SZ, "c">>, <<>>, NO_TITLE }
\* Durations in seconds, up to a little over 255 minutes.
Durations == {0, 59, 60, 258, 15299, 15300, 15360}

manager ==
  <<sock, _stop, _reconnect_task, task, open, peerUp, answeredOk, mainpc, calls,
    handled>>

EncInit ==
  /\ InitManager
  /\ enc \in { [NoEnc EXCEPT !.stage = "input", !.artist = a, !.title = t,
                             !.duration = d] :
               a \in Artists, t \in Titles, d \in Durations }

\* on_message, lines 39-72: validation, sanitizing, the TEXT value and the
\* fields to tag.
PrepareText ==
  /\ enc.stage = "input"
  /\ enc.artist # <<>>
  /\ enc.title # <<>>
  /\ LET sanitized_artist == sanitize_text(enc.artist)
         sanitized_title == sanitize_text(enc.title)
         text == JoinText(sanitized_artist, sanitized_title)
     IN enc' = [enc EXCEPT
                  !.stage = "text",
                  !.via = "handler",
                  !.sanitized_artist = sanitized_artist,
                  !.sanitized_title = sanitized_title,
                  !.text = truncated_text(text),
                  !.truncated = truncated(text),
                  !.rt_plus_artist =
                     rt_plus_field(sanitized_artist, truncated_text(text)),
                  !.rt_plus_title =
                     rt_plus_field(sanitized_title, truncated_text(text))]
  /\ UNCHANGED <<manager, handler, wire>>

\* on_message, lines 81-83: the payload for the TEXT value just built.
BuildTag ==
  /\ enc.stage = "text"
  /\ enc' = [enc EXCEPT
               !.stage = "tagged",
               !.payload = build_rt_plus_tag_command(
                             enc.text, enc.rt_plus_artist, enc.rt_plus_title,
                             enc.duration)]
  /\ UNCHANGED <<manager, handler, wire>>

\* build_rt_plus_tag_command called with the fields as they came, as the
\* on_message of src/rds.py does: the text is the TEXT value of the pair, the
\* artist and the title are neither sanitized nor checked against it.
BuildDirect ==
  /\ enc.stage = "input"
  /\ LET text == JoinText(sanitize_text(enc.artist), sanitize_text(enc.title))
     IN enc' = [enc EXCEPT
                  !.stage = "tagged",
                  !.via = "direct",
                  !.text = truncated_text(text),
                  !.truncated = truncated(text),
                  !.rt_plus_artist = enc.artist,
                  !.rt_plus_title = enc.title,
                  !.payload = build_rt_plus_tag_command(
                                truncated_text(text), enc.artist, enc.title,
                                enc.duration)]
  /\ UNCHANGED <<manager, handler, wire>>

EncNext ==
  \/ PrepareText
  \/ BuildTag
  \/ BuildDirect

EncSpec == EncInit /\ [][EncNext]_vars


\* ----------------------------------------------------------------- claims

CallIdx == DOMAIN calls

\* The last line of the decoded, stripped response: what follows its last
\* line break.
LastLine(raw) ==
  LET s == Strip(Decode(raw))
      brk == {i \in 1..Len(s) : s[i] \in LineBreaks}
      from == IF brk = {} THEN 1
              ELSE 1 + (CHOOSE j \in brk : \A k \in brk : k <= j)
  IN SubSeq(s, from, Len(s))

LastLineOf == [raw \in Replies \cup {Eof} |-> LastLine(raw)]
BlankReply == [raw \in Replies \cup {Eof} |-> Strip(Decode(raw)) = <<>>]

\* C1: at most one socket is live at any time, the installed handle is
\* always a live socket, and every command send_command writes goes to a
\* socket that is open at that moment.
C1_OneLiveSocket ==
  /\ Cardinality(open) <= 1
  /\ open \subseteq {sock}
  /\ sock # None => sock \in open
  /\ \A i \in CallIdx :
       calls[i].sockBefore # None => calls[i].sockBefore \in calls[i].openBefore

\* C1 witness: a command failed on its socket, that socket was torn down,
\* and the supervisor has installed a new connection since.
C1_Witness ==
  /\ calls # <<>>
  /\ calls[1].outcome = "TransportError"
  /\ calls[1].wrote
  /\ sock # None
  /\ sock \in open

\* C2 as stated: send_command returns normally only for a response whose
\* lines are not empty and end with the line "OK"; an empty response fails.
C2_SuccessOnlyOnOk ==
  \A i \in CallIdx :
    calls[i].outcome = "ok" =>
      /\ ~BlankReply[calls[i].env.raw]
      /\ LastLineOf[calls[i].env.raw] = OK

\* C3: a call made while no socket is installed fails with NotConnected,
\* writes nothing, reads nothing, opens no socket and leaves the handle and
\* the open sockets as they were.
C3_NotConnected ==
  \A i \in CallIdx :
    calls[i].sockBefore = None =>
      /\ calls[i].outcome = "NotConnected"
      /\ ~calls[i].wrote
      /\ ~calls[i].read
      /\ calls[i].sockAfter = None
      /\ calls[i].openAfter = calls[i].openBefore

\* C3 witness: a call after stop() has returned found no socket.
C3_Witness ==
  /\ calls # <<>>
  /\ calls[1].sockBefore = None
  /\ calls[1].outcome = "NotConnected"
  /\ calls[1].phase = "stopped"

\* C4: a call that ends with an I/O error has closed its socket and cleared
\* the handle by the time it raises.
C4_IoErrorTearsDown ==
  \A i \in CallIdx :
    calls[i].outcome = "TransportError" =>
      /\ calls[i].sockBefore # None
      /\ calls[i].sockAfter = None
      /\ calls[i].sockBefore \notin calls[i].openAfter
      /\ i = Len(calls)

\* C4 witness: recv() raised after the command was written, and the
\* manager is left without a socket.
C4_Witness ==
  /\ calls # <<>>
  /\ calls[Len(calls)].outcome = "TransportError"
  /\ calls[Len(calls)].wrote
  /\ sock = None
  /\ open = {}

\* C5: for a response that is not blank, the last line alone decides: the
\* call fails with the device-rejected error when that line is not "OK"
\* and returns normally when it is, whatever the earlier lines are.
C5_LastLineDecides ==
  \A i \in CallIdx :
    (calls[i].read /\ ~BlankReply[calls[i].env.raw]) =>
      IF LastLineOf[calls[i].env.raw] = OK
      THEN calls[i].outcome = "ok"
      ELSE calls[i].outcome = "DeviceRejected"

\* C5 witness: "OK" then "NO" was rejected.
C5_Witness ==
  \E i \in CallIdx :
    /\ calls[i].env.raw = OK \o <<CR, LF>> \o <<"N", "O">> \o <<CR, LF>>
    /\ calls[i].outcome = "DeviceRejected"

\* C6 as stated: on a connection that answered a command "OK" and was then
\* dropped by the encoder, the next call fails with a transport error and
\* leaves the link disconnected.
C6_DropThenTransportError ==
  \A i \in CallIdx :
    (/\ calls[i].sockBefore # None
     /\ calls[i].answeredBefore
     /\ ~calls[i].peerBefore) =>
      /\ calls[i].outcome = "TransportError"
      /\ calls[i].sockAfter = None

\* C7: while the manager has been started and not stopped, a link that is
\* disconnected is connected again in the end (or stop() is called first),
\* whatever send_command calls fail in between.
C7_EventuallyConnected ==
  (mainpc \in {"started", "consuming"} /\ sock = None) ~> (sock # None \/ _stop)

\* C7 witness: a command failed, the socket was torn down, and the
\* supervisor is in a backoff sleep after a failed reconnect.
C7_Witness ==
  /\ mainpc = "consuming"
  /\ calls # <<>>
  /\ calls[1].outcome \in {"TransportError", "DeviceRejected"}
  /\ sock = None
  /\ \E t \in TaskIds : task[t].pc = "sleep_backoff" /\ task[t].fails >= 2

BackoffValues == {1, 2, 4, 8, 16, 32, 60}

\* C8: the backoff is always one of 1, 2, 4, 8, 16, 32, 60; the sleep after
\* the k-th failed connect in a row lasts min(2^(k-1), 60) seconds and the
\* backoff is doubled only after that sleep; with no failed connect since
\* the last successful one (or since the start) the backoff is 1.
C8_Backoff ==
  \A t \in TaskIds :
    /\ task[t].backoff \in BackoffValues
    /\ task[t].fails = 0 => task[t].backoff = InitialBackoff
    /\ task[t].pc = "sleep_backoff" =>
         /\ task[t].fails >= 1
         /\ task[t].slept = Min(2 ^ (task[t].fails - 1), BackoffCap)
         /\ task[t].backoff = task[t].slept

\* C8 witness: the seventh failed connect in a row sleeps 60 seconds.
C8_Witness ==
  \E t \in TaskIds :
    /\ task[t].pc = "sleep_backoff"
    /\ task[t].fails = 7
    /\ task[t].slept = BackoffCap

\* The supervisor can take a step: run, wake up, or be cancelled.
SupervisorActive ==
  \E t \in TaskIds :
    \/ ENABLED Run(t)
    \/ ENABLED TimerFire(t)
    \/ ENABLED WakeBackoff(t)
    \/ ENABLED WakeIdle(t)
    \/ ENABLED Cancelled(t)

\* C9: once stop() has returned, every supervisor task has ended and none
\* can take a step, no socket is open, the handle is cleared, and every
\* send_command call made from then on fails with NotConnected.
C9_StopReturned ==
  mainpc \in {"stopped", "closed"} =>
    /\ \A t \in TaskIds : task[t].pc \in Finished \cup {"none"}
    /\ ~SupervisorActive
    /\ sock = None
    /\ open = {}
    /\ \A i \in CallIdx :
         calls[i].phase = "stopped" => calls[i].outcome = "NotConnected"

\* C9 witness: stop() has returned after cancelling the supervisor, and a
\* message handled afterwards found the link closed.
C9_Witness ==
  /\ mainpc = "stopped"
  /\ \E t \in TaskIds : task[t].pc = "cancelled"
  /\ calls # <<>>
  /\ calls[1].phase = "stopped"
  /\ calls[1].outcome = "NotConnected"

\* A connection attempt is made in this step.
ConnectAttempt ==
  \/ sock = None /\ sock' # None
  \/ \E t \in TaskIds :
       /\ task[t].pc # "sleep_backoff" \/ task[t].fired
       /\ task'[t].pc = "sleep_backoff"
       /\ ~task'[t].fired

\* C10: once stop() has been called, a sleeping supervisor never resumes
\* its loop and no connection is attempted, and stop() returns without any
\* timer having to run out.
C10_StopInterruptsSleep ==
  /\ [][_stop => ~ConnectAttempt]_vars
  /\ [][\A t \in TaskIds :
          (_stop /\ task[t].pc \in Sleeping) =>
            task'[t].pc \in {task[t].pc, "cancelled"}]_vars
  /\ (mainpc = "stopping") ~> (mainpc = "stopped")

\* C10 witness: stop() has returned; the supervisor was cancelled in a
\* backoff sleep whose timer had not run out.
C10_Witness ==
  /\ mainpc = "stopped"
  /\ \E t \in TaskIds :
       /\ task[t].pc = "cancelled"
       /\ task[t].fails >= 1
       /\ ~task[t].fired

\* ------------------------------------------------------- claims on start()

\* The supervisor loops that have been started and have not ended.
Running == { t \in TaskIds : task[t].pc \notin {"none"} \cup Finished }

\* C11: however often start() has been called, at most one supervisor loop is
\* running, and once stop() has returned every supervisor loop that was
\* started has ended.
C11_StartAtMostOnce ==
  /\ Cardinality(Running) <= 1
  /\ mainpc \in {"stopped", "closed"} => Running = {}

\* ------------------------------------------------------- claims on the wire

\* C12: at most one command is in flight: no command is written while the
\* response to another is outstanding, none is outstanding when a step of a
\* handler, of the supervisor or of stop() ends, and every response read is
\* the response to the command written last.
C12_OneInFlight ==
  /\ wire.inflight = NoCmd
  /\ ~wire.piped
  /\ ~wire.misread

\* A handler is suspended in sanitize_text while the commands of another
\* handler, which was delivered later, have been answered.
C12_Witness ==
  /\ handler[1].pc = "sanitize_title"
  /\ handler[2].pc = "idle"
  /\ wire.last = [by |-> 2, cmd |-> "RT+TAG"]

\* ------------------------------------------------------ claims on on_message

\* The response to call i ended in the line "OK".
AnsweredOK(i) ==
  /\ calls[i].read
  /\ ~BlankReply[calls[i].env.raw]
  /\ LastLineOf[calls[i].env.raw] = OK

\* C13: the first command of an event is TEXT; RT+TAG comes second, and only
\* if the last line of the response to the event's TEXT command was "OK"; no
\* command of the event follows its RT+TAG command, whether that failed or
\* not.
C13_TextThenTag ==
  /\ calls # <<>> => calls[1].cmd = "TEXT"
  /\ Len(calls) <= 2
  /\ Len(calls) = 2 =>
       /\ calls[2].cmd = "RT+TAG"
       /\ AnsweredOK(1)

\* The messages the claims call malformed, and those lacking a field.
Malformed(msg) == msg.body = "garbage"
LacksField(msg) ==
  /\ msg.body = "json"
  /\ \/ "artist" \notin msg.keys
     \/ "song" \notin msg.keys
     \/ msg.artist = <<>>
     \/ msg.song = <<>>

\* C14: if the last send_command call of a handler failed (not connected,
\* transport error or device rejection) the handler has logged the error, no
\* exception has left the message processing, and the message is
\* acknowledged; no message is ever requeued.
C14_SendFailureAcked ==
  /\ handled.disposition \in {"none", "ack", "reject"}
  /\ (/\ calls # <<>>
      /\ calls[Len(calls)].outcome
           \in {"NotConnected", "TransportError", "DeviceRejected"}) =>
       /\ handled.logged # "none"
       /\ handled.escaped = "none"
       /\ handled.disposition = "ack"

\* The RT+TAG command of an event rejected by the device after its TEXT
\* command went through.
C14_Witness ==
  /\ Len(calls) = 2
  /\ calls[2].outcome = "DeviceRejected"
  /\ handled.raised = "AMQPError"
  /\ handled.logged = "exception"
  /\ handled.disposition = "ack"

\* C15: a message that is malformed JSON or lacks artist or title is logged
\* and neither requeued nor answered by any command; a message with both
\* fields has its TEXT command attempted.
C15_InvalidDropped ==
  handled.msg # NoMessage =>
    IF Malformed(handled.msg) \/ LacksField(handled.msg)
    THEN /\ handled.logged # "none"
         /\ handled.disposition \in {"ack", "reject"}
         /\ handled.escaped = "none"
         /\ calls = <<>>
    ELSE /\ calls # <<>>
         /\ calls[1].cmd = "TEXT"

\* A message without a title, delivered after an event had been sent.
C15_Witness ==
  /\ LacksField(handled.msg)
  /\ "song" \notin handled.msg.keys
  /\ handled.raised = "ValueError"
  /\ handled.logged = "critical"
  /\ handled.disposition = "ack"
  /\ calls = <<>>
  /\ answeredOk

\* A field for which no tag can be produced: missing, or not in the text.
Unlocated(field, sentinel, text) ==
  field = <<>> \/ field = sentinel \/ ~Occurs(field, text)

\* The messages that pass the check of artist and title and for which
\* neither tag can be produced.
Untaggable ==
  { msg \in Messages :
      /\ Validate(msg) = "none"
      /\ Unlocated(sanitize_text(msg.artist), NO_ARTIST, HandlerText(msg))
      /\ Unlocated(sanitize_text(msg.song), NO_TITLE, HandlerText(msg)) }

\* C22: for an event for which neither tag can be produced the builder
\* returns the empty string, and the handler calls send_command for TEXT and
\* for nothing else.
C22_NoTagNoCommand ==
  (handled # NoHandled /\ handled.msg \in Untaggable) =>
    /\ PayloadOf[handled.msg] = <<>>
    /\ Len(calls) = 1
    /\ calls[1].cmd = "TEXT"

\* The TEXT command of such an event was written and answered "OK", and the
\* message was acknowledged.
C22_Witness ==
  /\ handled # NoHandled
  /\ handled.msg \in Untaggable
  /\ Len(calls) = 1
  /\ calls[1].cmd = "TEXT"
  /\ calls[1].wrote
  /\ calls[1].outcome = "ok"
  /\ calls[1].env.raw = OK
  /\ handled.raised = "none"

\* C27: no handler is ever suspended with its TEXT written and its RT+TAG
\* still to come, and no pair of TEXT and RT+TAG is split: between the two
\* writes no other handler writes and the socket is not replaced.
C27_BackToBack ==
  /\ wire.pending = NoPending
  /\ ~wire.split

\* Handler 2 was started after handler 1 and overtook it: its TEXT and its
\* RT+TAG were both answered "OK" while handler 1 is suspended.
C27_Witness ==
  /\ handler[1].pc = "sanitize_title"
  /\ handler[2].pc = "idle"
  /\ wire.last = [by |-> 2, cmd |-> "RT+TAG"]
  /\ handled # NoHandled
  /\ handled.raised = "none"
  /\ sock # None

\* -------------------------------------------- claims on the manager, again

\* A step of supervisor task t: neither start() creating it nor stop()
\* asking for its cancellation.
SupervisorStep(t) ==
  /\ task[t].pc # "none"
  /\ task'[t] # task[t]
  /\ task'[t].must_cancel = task[t].must_cancel

\* C24: while a socket is installed no step of the supervisor opens, closes
\* or replaces a socket or changes the backoff, whether the encoder's end of
\* the connection is up or not.
C24_SupervisorIdles ==
  [][\A t \in TaskIds :
       (sock # None /\ SupervisorStep(t)) =>
         /\ sock' = sock
         /\ open' = open
         /\ peerUp' = peerUp
         /\ task'[t].backoff = task[t].backoff]_vars

\* The supervisor is back asleep over a connection the encoder has dropped
\* and on which a command has read the end of the stream.
C24_Witness ==
  /\ sock # None
  /\ ~peerUp
  /\ calls # <<>>
  /\ calls[Len(calls)].env = Env("reply", Eof)
  /\ calls[Len(calls)].sockAfter = sock
  /\ \E t \in TaskIds : task[t].pc = "sleep_idle" /\ ~task[t].fired

\* C26: a call that raises once a socket was there to use, for an I/O error
\* or for a rejection by the device, leaves the socket closed and the handle
\* cleared, and is the last call of its handler; a call that succeeds had a
\* socket installed, which only the supervisor does.
C26_EveryFailureTearsDown ==
  \A i \in CallIdx :
    /\ calls[i].outcome \in {"TransportError", "DeviceRejected"} =>
         /\ calls[i].sockBefore # None
         /\ calls[i].sockAfter = None
         /\ calls[i].sockBefore \notin calls[i].openAfter
         /\ i = Len(calls)
    /\ calls[i].outcome = "ok" => calls[i].sockBefore \in calls[i].openBefore

\* The device answers RT+TAG with "NO" and the manager is left disconnected.
C26_Witness ==
  /\ Len(calls) = 2
  /\ calls[2].outcome = "DeviceRejected"
  /\ calls[2].env.raw = <<"N", "O">> \o <<CR, LF>>
  /\ calls[2].sockAfter = None
  /\ sock = None

\* C28: the commands of one event are at most one TEXT and at most one
\* RT+TAG, a command that raised is the last of its event, and a step that
\* installs a new socket sends nothing.
C28_NoRetry ==
  /\ [](/\ Cardinality({ i \in CallIdx : calls[i].cmd = "TEXT" }) <= 1
        /\ Cardinality({ i \in CallIdx : calls[i].cmd = "RT+TAG" }) <= 1
        /\ \A i \in CallIdx : calls[i].outcome # "ok" => i = Len(calls))
  /\ [][(sock = None /\ sock' # None) => calls' = calls]_vars

\* The TEXT command of the latest event found the link down, and the link is
\* up again.
C28_Witness ==
  /\ Len(calls) = 1
  /\ calls[1].cmd = "TEXT"
  /\ calls[1].outcome = "NotConnected"
  /\ sock # None
  /\ peerUp

\* C29: a call that succeeds leaves the socket it found installed and open,
\* and the step it is part of leaves the supervisor's backoff as it is.
C29_SuccessChangesNothing ==
  /\ [](\A i \in CallIdx :
          calls[i].outcome = "ok" =>
            /\ calls[i].sockAfter = calls[i].sockBefore
            /\ calls[i].sockAfter # None
            /\ calls[i].openAfter = calls[i].openBefore
            /\ calls[i].sockAfter \in calls[i].openAfter)
  /\ [][calls' # calls => task' = task]_vars

\* Both commands of an event answered "OK".
C29_Witness ==
  /\ Len(calls) = 2
  /\ calls[1].outcome = "ok"
  /\ calls[2].outcome = "ok"
  /\ calls[2].env.raw = OK
  /\ sock = calls[2].sockAfter

\* ---------------------------------------------- claims on the text and tag

\* A payload has been built and is not "".
Tagged == enc.stage = "tagged" /\ enc.payload # <<>>

\* The payload read back: its eight fields, and its k-th field group.
Fields == split(enc.payload)
FieldGroup(k) ==
  [tag |-> Fields[3 * k - 2],
   start |-> int(Fields[3 * k - 1]),
   length |-> int(Fields[3 * k])]

\* The characters of the display text a field group points at.
Tagged_Text(k) ==
  Slice(enc.text, FieldGroup(k).start, FieldGroup(k).start + FieldGroup(k).length)

\* Both fields handed to the builder occur in full in the display text.
BothFit ==
  /\ Tagged
  /\ enc.rt_plus_artist # <<>>
  /\ enc.rt_plus_title # <<>>
  /\ Occurs(enc.rt_plus_artist, enc.text)
  /\ Occurs(enc.rt_plus_title, enc.text)

\* C16: the display text of an event is the first min(64, n) characters of
\* the uppercased join "<ARTIST> - <TITLE>", n being the length of that join;
\* it is never longer than 64 characters, and the truncation flag is set
\* exactly if n > 64.
C16_DisplayText ==
  enc.via = "handler" =>
    LET joined == upper(enc.artist) \o <<" ", "-", " ">> \o upper(enc.title)
        n == Len(joined)
    IN /\ enc.text = SubSeq(joined, 1, Min(64, n))
       /\ Len(enc.text) <= 64
       /\ enc.truncated <=> n > 64

\* A lower-case pair whose join is cut, and a pair whose join is exactly 64
\* characters long is reached as well.
C16_Witness ==
  /\ enc.via = "handler"
  /\ enc.truncated
  /\ Len(enc.text) = 64
  /\ enc.artist = <<"a", SZ>>

\* C17: whenever artist and title both occur in the display text, the two
\* field groups of the payload are (ARTIST, start1, len1) and (TITLE, start2,
\* len2), the display text from start1 on for len1 characters is the artist,
\* and from start2 on for len2 characters it is the title.
C17_RoundTrip ==
  BothFit =>
    /\ FieldGroup(1).tag = ARTIST_TAG
    /\ Tagged_Text(1) = enc.rt_plus_artist
    /\ FieldGroup(2).tag = TITLE_TAG
    /\ Tagged_Text(2) = enc.rt_plus_title

\* C17, as it holds: unless the artist is "NO ARTIST" or the title is
\* "NO TITLE", which the builder takes for missing, the range of the artist
\* is its first 63 characters and the range of the title its first 31
\* characters, so the round trip is exact for an artist of at most 63 and a
\* title of at most 31 characters.
C17_RoundTripClamped ==
  (/\ BothFit
   /\ enc.rt_plus_artist # NO_ARTIST
   /\ enc.rt_plus_title # NO_TITLE) =>
    /\ FieldGroup(1).tag = ARTIST_TAG
    /\ Tagged_Text(1) = Prefix(enc.rt_plus_artist, 63)
    /\ FieldGroup(2).tag = TITLE_TAG
    /\ Tagged_Text(2) = Prefix(enc.rt_plus_title, 31)

\* A title of 40 characters that fits, from the handler.
C17_Witness ==
  /\ BothFit
  /\ enc.via = "handler"
  /\ Len(enc.rt_plus_title) = 40
  /\ FieldGroup(2).length = 31

\* C18: a field that does not occur in full in the display text has no field
\* group in the payload; every field group that is not blank lies within the
\* display text; and if the handler's title is cut off by the truncation the
\* payload is the ARTIST group followed by the blank group.
C18_CutFieldOmitted ==
  Tagged =>
    /\ \A k \in {1, 2} :
         /\ FieldGroup(k).tag = ARTIST_TAG =>
              /\ enc.rt_plus_artist # <<>>
              /\ Occurs(enc.rt_plus_artist, enc.text)
         /\ FieldGroup(k).tag = TITLE_TAG =>
              /\ enc.rt_plus_title # <<>>
              /\ Occurs(enc.rt_plus_title, enc.text)
         /\ FieldGroup(k).tag \in {ARTIST_TAG, TITLE_TAG} =>
              FieldGroup(k).start + FieldGroup(k).length <= Len(enc.text)
    /\ (enc.via = "handler" /\ ~Occurs(enc.sanitized_title, enc.text)) =>
         /\ FieldGroup(1).tag = ARTIST_TAG
         /\ <<Fields[4], Fields[5], Fields[6]>>
              = << <<"0", "0">>, <<"0", "0">>, <<"0", "0">> >>

\* The handler's title of four characters after an artist of 62.
C18_Witness ==
  /\ Tagged
  /\ enc.via = "handler"
  /\ Len(enc.sanitized_artist) = 62
  /\ Len(enc.sanitized_title) = 4
  /\ ~Occurs(enc.sanitized_title, enc.text)
  /\ Fields[4] = <<"0", "0">>

\* What the two fields give before the last length is clamped.
Unclamped ==
  TagPart(ARTIST_TAG, enc.text,
          IF enc.rt_plus_artist = <<>> THEN NO_ARTIST ELSE enc.rt_plus_artist,
          NO_ARTIST)
    \o TagPart(TITLE_TAG, enc.text,
               IF enc.rt_plus_title = <<>> THEN NO_TITLE ELSE enc.rt_plus_title,
               NO_TITLE)

\* C19: the length field of the second field group is at most 31; where the
\* match is longer it is 31 and the group's content type and start offset are
\* those of the match; the first group is as it was found.
C19_SecondLengthClamped ==
  Tagged =>
    /\ FieldGroup(2).length <= 31
    /\ <<Fields[1], Fields[2], Fields[3]>> = split(Unclamped[1])
    /\ Len(Unclamped) = 2 =>
         /\ <<Fields[4], Fields[5]>> = SubSeq(split(Unclamped[2]), 1, 2)
         /\ FieldGroup(2).length = Min(int(split(Unclamped[2])[3]), 31)

\* A title of 40 characters in second place.
C19_Witness ==
  /\ Tagged
  /\ Len(Unclamped) = 2
  /\ int(split(Unclamped[2])[3]) = 40
  /\ Fields[6] = <<"3", "1">>

\* C20: the timeout field of the payload is floor(duration / 60), it lies
\* within 0..255, and a duration of 0 gives 0.
C20_Timeout ==
  Tagged =>
    /\ int(Fields[8]) = enc.duration \div 60
    /\ int(Fields[8]) \in 0 .. 255
    /\ enc.duration = 0 => Fields[8] = <<"0">>

\* A field handed to the builder that it can locate: neither missing, nor a
\* sentinel, nor absent from the display text.
ArtistLocated ==
  /\ enc.rt_plus_artist \notin {<<>>, NO_ARTIST}
  /\ Occurs(enc.rt_plus_artist, enc.text)
TitleLocated ==
  /\ enc.rt_plus_title \notin {<<>>, NO_TITLE}
  /\ Occurs(enc.rt_plus_title, enc.text)

\* The field the first group of the payload stands for.
FirstField ==
  IF FieldGroup(1).tag = ARTIST_TAG THEN enc.rt_plus_artist
  ELSE enc.rt_plus_title

\* C21: the display text is at most 64 characters long; every field group of
\* a payload starts within 0..63; the length of the first group is the length
\* of its field, or 63 if the field is longer; and every group that is not
\* blank ends within the display text.
C21_GroupsInRange ==
  Tagged =>
    /\ Len(enc.text) <= 64
    /\ \A k \in {1, 2} :
         /\ FieldGroup(k).start \in 0 .. 63
         /\ FieldGroup(k).tag # <<"0", "0">> =>
              FieldGroup(k).start + FieldGroup(k).length <= Len(enc.text)
    /\ FieldGroup(1).length <= 63
    /\ FieldGroup(1).length = Min(Len(FirstField), 63)

\* The handler's artist of 64 characters, which is the whole display text.
C21_Witness ==
  /\ Tagged
  /\ enc.via = "handler"
  /\ Len(enc.rt_plus_artist) = 64
  /\ FieldGroup(1).tag = ARTIST_TAG
  /\ FieldGroup(1).length = 63

\* C23: a payload that is not "" has eight fields, the seventh of which is
\* the running bit 1, hence two field groups and no more; if only one of
\* artist and title is located the second group is blank (00, 0, 0), if both
\* are the groups are ARTIST and TITLE in this order.
C23_TwoGroups ==
  Tagged =>
    /\ Len(Fields) = 8
    /\ Fields[7] = <<"1">>
    /\ FieldGroup(1).tag \in {ARTIST_TAG, TITLE_TAG}
    /\ (ArtistLocated /\ TitleLocated) =>
         /\ FieldGroup(1).tag = ARTIST_TAG
         /\ FieldGroup(2).tag = TITLE_TAG
    /\ ~(ArtistLocated /\ TitleLocated) =>
         FieldGroup(2) = [tag |-> <<"0", "0">>, start |-> 0, length |-> 0]

\* A title alone, the artist not being found in the text.
C23_Witness ==
  /\ Tagged
  /\ ~ArtistLocated
  /\ TitleLocated
  /\ FieldGroup(1).tag = TITLE_TAG
  /\ FieldGroup(2).tag = <<"0", "0">>
  /\ Len(Fields) = 8

\* C25: if a payload has both an ARTIST and a TITLE group, the artist starts
\* at index 0 and the title starts after the separator, at len(artist) + 3 or
\* later, so that the two ranges do not overlap.
C25_NoOverlap ==
  (/\ Tagged
   /\ FieldGroup(1).tag = ARTIST_TAG
   /\ FieldGroup(2).tag = TITLE_TAG) =>
    /\ FieldGroup(1).start = 0
    /\ FieldGroup(2).start >= Len(enc.rt_plus_artist) + 3
    /\ FieldGroup(1).start + FieldGroup(1).length <= FieldGroup(2).start

====
